---- MODULE Spec2Model ----
(***************************************************************************)
(* GeosCore/rdtsc.c: the cycle-counter read                                *)
(*                                                                         *)
(*     inline uint64_t rdtsc()                                             *)
(*     {                                                                   *)
(*         uint32_t lo, hi;                                                *)
(*         __asm__ __volatile__("rdtsc" : "=a"(lo), "=d"(hi));             *)
(*         return ((uint64_t)hi << 32) | lo;                               *)
(*     }                                                                   *)
(*                                                                         *)
(* TLC's integers are 32 bits wide, so an unsigned machine word is         *)
(* modelled at its true width as the set of the positions of its 1 bits    *)
(* (bit 0 the least significant): 0 is {}, 0xFFFFFFFF is 0..31,            *)
(* 0x100000000 is {32}, 0xFFFFFFFFFFFFFFFF is 0..63.  Casts, shifts and    *)
(* bitwise or are computed bit by bit at the width the C expression has.   *)
(*                                                                         *)
(* The platform is modelled around the function: one free-running 64-bit   *)
(* counter per logical core that ticks, wraps and may be reset, and        *)
(* threads that call rdtsc(), may be preempted between any two of its      *)
(* steps and may be moved to another core.                                 *)
(***************************************************************************)
EXTENDS Integers

\* ------------------------------------------------------------------ bounds
MaxCalls == 3        \* calls of rdtsc() begun, over all threads
MaxEvents == 2       \* platform events (ticks, resets, migrations) in a run

Threads == {"t1", "t2"}
Cores == {"c1", "c2"}
NoCore == "none"

\* ------------------------------------------------------- program constants
HalfBits == 32       \* uint32_t lo, hi
CounterBits == 64    \* uint64_t result
ShiftBits == 32      \* hi << 32

\* -------------------------------------------------------- machine words
Bits(w) == 0..(w - 1)

Zero == {}
LowMax == Bits(HalfBits)               \* 0x00000000FFFFFFFF
HighOne == {HalfBits}                  \* 0x0000000100000000
AllOnes == Bits(CounterBits)           \* 0xFFFFFFFFFFFFFFFF
Mixed == {1, 32, 63}                   \* 0x8000000100000002

\* (uintW_t)x : zero-extension keeps the bits, truncation drops bits >= w
Cast(x, w) == x \cap Bits(w)
\* x << n computed in a w-bit unsigned type
Shl(x, n, w) == {i + n : i \in x} \cap Bits(w)
\* x >> n of an unsigned value
Shr(x, n) == {i - n : i \in {j \in x : j >= n}}
\* x | y
BitOr(x, y) == x \cup y
\* x + 1 modulo 2^w: the lowest 0 bit becomes 1, the 1 bits below it 0
Inc(x, w) ==
    IF Bits(w) \subseteq x THEN {}
    ELSE LET k == CHOOSE j \in Bits(w) \ x : Bits(j) \subseteq x
         IN  {i \in x : i > k} \cup {k}
\* x - 1 modulo 2^w: the lowest 1 bit becomes 0, the 0 bits below it 1
Dec(x, w) ==
    IF x = {} THEN Bits(w)
    ELSE LET k == CHOOSE j \in x : Bits(j) \cap x = {}
         IN  {i \in x : i > k} \cup Bits(k)
\* unsigned x < y: the highest bit in which they differ is set in y
Less(x, y) == \E i \in y \ x : \A j \in x \ y : j < i
Geq(x, y) == ~Less(x, y)

\* hexadecimal digit k of x (digit 0 the least significant)
HexDigit(x, k) ==
    (IF (4 * k) \in x THEN 1 ELSE 0) + (IF (4 * k + 1) \in x THEN 2 ELSE 0)
    + (IF (4 * k + 2) \in x THEN 4 ELSE 0) + (IF (4 * k + 3) \in x THEN 8 ELSE 0)

VARIABLES
    tsc,        \* [Cores -> word]    each core's 64-bit counter
    core,       \* [Threads -> Cores] the core a thread runs on
    pc,         \* [Threads -> ...]   position of the thread in rdtsc()
    lo, hi,     \* [Threads -> word]  the locals, by frame
    ret,        \* [Threads -> word]  value returned by the thread's last call
    \* history of the run, read by the properties only
    ncalls,     \* calls the thread has completed
    prev,       \* value returned by the call before the last
    snap,       \* the core's counter at the instant of the thread's capture
    during,     \* values the thread's core counter has held during its call in progress
    acc,        \* locations the thread's call has accessed, with the kind
    capCore,    \* core on which the thread's latest capture ran
    since,      \* what happened to capCore's counter since that capture
    gap,        \* the same, frozen between the last two captures
    before,     \* the calls that had returned when the thread's call began
    begun,      \* calls begun, over all threads
    nevents     \* platform events so far

vars == <<tsc, core, pc, lo, hi, ret, ncalls, prev, snap, during, acc,
          capCore, since, gap, before, begun, nevents>>

\* --------------------------------------------------------------- rdtsc.c
\* return ((uint64_t)hi << 32) | lo;   with hi kept at 32 bits: the shift
\* leaves the 32-bit type and every bit of hi is lost
CombineNarrow(h, l) ==
    BitOr(Shl(h, ShiftBits, HalfBits), Cast(l, CounterBits))
\* "=a"(hi), "=d"(lo): the halves taken from the wrong registers
CombineSwapped(h, l) ==
    BitOr(Shl(Cast(l, CounterBits), ShiftBits, CounterBits), Cast(h, CounterBits))
\* a stub that ignores the low half
CombineHighOnly(h, l) ==
    Shl(Cast(h, CounterBits), ShiftBits, CounterBits)
\* a result never let fall below the values the threads' last calls returned
CombineClamped(h, l) ==
    LET v == BitOr(Shl(Cast(h, CounterBits), ShiftBits, CounterBits), Cast(l, CounterBits))
        last == {ret[u] : u \in {w \in Threads : ncalls[w] >= 1}}
    IN  IF \E o \in last : Less(v, o)
        THEN CHOOSE o \in last : \A p \in last : Geq(o, p)
        ELSE v
\* return ((uint64_t)hi << 32) | lo;
Combine(h, l) ==
    BitOr(Shl(Cast(h, CounterBits), ShiftBits, CounterBits), Cast(l, CounterBits))

\* uint32_t lo, hi;  declared static: one pair shared by every call
SharedFrame(t) == "t1"
\* uint32_t lo, hi;  automatic storage: a pair of the call's own
FrameOf(t) == t

\* the counters at the start of a run: c1 before a carry into the high half
\* and c2 at 0, c1 before the wraparound, c1 at an irregular value with c2
\* before a carry
InitCounters ==
    { [c \in Cores |-> IF c = "c1" THEN LowMax ELSE Zero],
      [c \in Cores |-> IF c = "c1" THEN AllOnes ELSE Zero],
      [c \in Cores |-> IF c = "c1" THEN Mixed ELSE LowMax] }
NoEvents == [ticks |-> 0, wrap |-> FALSE, reset |-> FALSE]
NoGap == [valid |-> FALSE, same |-> FALSE, ticks |-> 0, wrap |-> FALSE, reset |-> FALSE]

Init ==
    /\ tsc \in InitCounters
    /\ core = [t \in Threads |-> IF t = "t1" THEN "c1" ELSE "c2"]
    /\ pc = [t \in Threads |-> "idle"]
    /\ lo = [t \in Threads |-> Zero]
    /\ hi = [t \in Threads |-> Zero]
    /\ ret = [t \in Threads |-> Zero]
    /\ ncalls = [t \in Threads |-> 0]
    /\ prev = [t \in Threads |-> Zero]
    /\ snap = [t \in Threads |-> Zero]
    /\ during = [t \in Threads |-> {}]
    /\ acc = [t \in Threads |-> {}]
    /\ capCore = [t \in Threads |-> NoCore]
    /\ since = [t \in Threads |-> NoEvents]
    /\ gap = [t \in Threads |-> NoGap]
    /\ before = [t \in Threads |-> {}]
    /\ begun = 0
    /\ nevents = 0

\* the two halves read by two instructions, the counter ticking in between
RdtscTorn(c) ==
    [lo |-> Cast(tsc[c], HalfBits),
     hi |-> Cast(Shr(Dec(tsc[c], CounterBits), HalfBits), HalfBits)]
\* the rdtsc instruction: EDX:EAX <- the core's counter, in one step
RdtscInstr(c) ==
    [lo |-> Cast(tsc[c], HalfBits),
     hi |-> Cast(Shr(tsc[c], HalfBits), HalfBits)]

\* the asm statement, the first thing a call executes: lo and hi, until
\* then uninitialised, receive EAX and EDX
Asm(t) ==
    /\ pc[t] = "idle"
    /\ begun < MaxCalls
    /\ begun' = begun + 1
    /\ LET r == RdtscInstr(core[t])
       IN  /\ lo' = [lo EXCEPT ![FrameOf(t)] = r.lo]
           /\ hi' = [hi EXCEPT ![FrameOf(t)] = r.hi]
    /\ pc' = [pc EXCEPT ![t] = "captured"]
    /\ snap' = [snap EXCEPT ![t] = tsc[core[t]]]
    /\ during' = [during EXCEPT ![t] = {tsc[core[t]]}]
    /\ before' = [before EXCEPT ![t] =
                      {[val |-> ret[u], core |-> capCore[u]] :
                          u \in {w \in Threads : pc[w] = "idle" /\ ncalls[w] >= 1}}]
    /\ acc' = [acc EXCEPT ![t] = {[loc |-> <<"tsc", core[t]>>, kind |-> "r"],
                                  [loc |-> <<"lo", FrameOf(t)>>, kind |-> "w"],
                                  [loc |-> <<"hi", FrameOf(t)>>, kind |-> "w"]}]
    /\ gap' = [gap EXCEPT ![t] = [valid |-> capCore[t] # NoCore,
                                  same |-> capCore[t] = core[t],
                                  ticks |-> since[t].ticks,
                                  wrap |-> since[t].wrap,
                                  reset |-> since[t].reset]]
    /\ capCore' = [capCore EXCEPT ![t] = core[t]]
    /\ since' = [since EXCEPT ![t] = NoEvents]
    /\ UNCHANGED <<tsc, core, ret, ncalls, prev, nevents>>

\* a return that waits until no other call is in progress
ReturnBlocking(t) ==
    /\ pc[t] = "captured"
    /\ \A u \in Threads \ {t} : pc[u] = "idle"
    /\ ret' = [ret EXCEPT ![t] = Combine(hi[FrameOf(t)], lo[FrameOf(t)])]
    /\ prev' = [prev EXCEPT ![t] = ret[t]]
    /\ ncalls' = [ncalls EXCEPT ![t] = @ + 1]
    /\ pc' = [pc EXCEPT ![t] = "idle"]
    /\ acc' = [acc EXCEPT ![t] = @ \cup {[loc |-> <<"lo", FrameOf(t)>>, kind |-> "r"],
                                         [loc |-> <<"hi", FrameOf(t)>>, kind |-> "r"],
                                         [loc |-> <<"ret", t>>, kind |-> "w"]}]
    /\ during' = [during EXCEPT ![t] = {}]
    /\ UNCHANGED <<tsc, core, lo, hi, snap, capCore, since, gap, before,
                   begun, nevents>>

\* the return statement
Return(t) ==
    /\ pc[t] = "captured"
    /\ ret' = [ret EXCEPT ![t] = Combine(hi[FrameOf(t)], lo[FrameOf(t)])]
    /\ prev' = [prev EXCEPT ![t] = ret[t]]
    /\ ncalls' = [ncalls EXCEPT ![t] = @ + 1]
    /\ pc' = [pc EXCEPT ![t] = "idle"]
    /\ acc' = [acc EXCEPT ![t] = @ \cup {[loc |-> <<"lo", FrameOf(t)>>, kind |-> "r"],
                                         [loc |-> <<"hi", FrameOf(t)>>, kind |-> "r"],
                                         [loc |-> <<"ret", t>>, kind |-> "w"]}]
    /\ during' = [during EXCEPT ![t] = {}]
    /\ UNCHANGED <<tsc, core, lo, hi, snap, capCore, since, gap, before,
                   begun, nevents>>

RdtscStep(t) == Asm(t) \/ Return(t)

\* platform: the counter of core c advances by one, modulo 2^64
Tick(c) ==
    /\ nevents < MaxEvents
    /\ nevents' = nevents + 1
    /\ tsc' = [tsc EXCEPT ![c] = Inc(@, CounterBits)]
    /\ since' = [t \in Threads |->
                    IF capCore[t] = c
                    THEN [since[t] EXCEPT !.ticks = @ + 1,
                                          !.wrap = @ \/ tsc[c] = AllOnes]
                    ELSE since[t]]
    /\ during' = [t \in Threads |->
                    IF pc[t] # "idle" /\ core[t] = c
                    THEN during[t] \cup {Inc(tsc[c], CounterBits)}
                    ELSE during[t]]
    /\ UNCHANGED <<core, pc, lo, hi, ret, ncalls, prev, snap, acc, capCore, gap,
                   before, begun>>

\* platform: the counter of core c is reset
Reset(c) ==
    /\ nevents < MaxEvents
    /\ nevents' = nevents + 1
    /\ tsc' = [tsc EXCEPT ![c] = Zero]
    /\ since' = [t \in Threads |->
                    IF capCore[t] = c THEN [since[t] EXCEPT !.reset = TRUE]
                    ELSE since[t]]
    /\ during' = [t \in Threads |->
                    IF pc[t] # "idle" /\ core[t] = c
                    THEN during[t] \cup {Zero}
                    ELSE during[t]]
    /\ UNCHANGED <<core, pc, lo, hi, ret, ncalls, prev, snap, acc, capCore, gap,
                   before, begun>>

\* platform: the scheduler moves thread t to core c
Migrate(t, c) ==
    /\ nevents < MaxEvents
    /\ c # core[t]
    /\ nevents' = nevents + 1
    /\ core' = [core EXCEPT ![t] = c]
    /\ during' = [during EXCEPT ![t] = IF pc[t] # "idle" THEN @ \cup {tsc[c]} ELSE @]
    /\ UNCHANGED <<tsc, pc, lo, hi, ret, ncalls, prev, snap, acc, capCore, since,
                   gap, before, begun>>

Next ==
    \/ \E t \in Threads : Asm(t)
    \/ \E t \in Threads : Return(t)
    \/ \E c \in Cores : Tick(c)
    \/ \E c \in Cores : Reset(c)
    \/ \E t \in Threads, c \in Cores : Migrate(t, c)

Spec == Init /\ [][Next]_vars

FairSpec == Spec /\ \A t \in Threads : WF_vars(Return(t))

\* ------------------------------------------------------------ properties
\* a call of t has returned: ret[t] is its value, lo[t] and hi[t] the halves
Done(t) == pc[t] = "idle" /\ ncalls[t] >= 1
\* two consecutive calls of t have returned: prev[t] then ret[t]
Pair(t) == pc[t] = "idle" /\ ncalls[t] >= 2
\* ... both captured on the same core
SameCorePair(t) == Pair(t) /\ gap[t].same
\* two calls in progress never touch one location unless both only read it
NoRace ==
    \A t, u \in Threads :
        (t # u /\ pc[t] # "idle" /\ pc[u] # "idle") =>
            \A a \in acc[t], b \in acc[u] :
                a.loc = b.loc => (a.kind = "r" /\ b.kind = "r")

\* C1: the value returned is H * 2^32 + L: bit i of the result is bit i of
\* the low half and bit i + 32 is bit i of the high half, the 16 hexadecimal
\* digits of the result are the 8 of H then the 8 of L, and the four
\* boundary pairs give
\* 0, 0xFFFFFFFF, 0x100000000 and 0xFFFFFFFFFFFFFFFF.
C1_Concatenation ==
    \A t \in Threads :
        Done(t) =>
            LET H == hi[t]
                L == lo[t]
                r == ret[t]
            IN  /\ H \subseteq Bits(HalfBits) /\ L \subseteq Bits(HalfBits)
                /\ r \subseteq Bits(CounterBits)
                /\ \A i \in Bits(HalfBits) :
                      /\ (i \in r) <=> (i \in L)
                      /\ ((i + HalfBits) \in r) <=> (i \in H)
                /\ \A k \in 0..15 :
                      HexDigit(r, k) = IF k < 8 THEN HexDigit(L, k)
                                                ELSE HexDigit(H, k - 8)
                /\ (L = Zero /\ H = Zero) => r = Zero
                /\ (L = LowMax /\ H = Zero) => r = LowMax
                /\ (L = Zero /\ H = {0}) => r = HighOne
                /\ (L = LowMax /\ H = LowMax) => r = AllOnes
\* boundary pairs combined in one run: (L, H) = (0xFFFFFFFF, 0) and then
\* (0, 1) by one thread, (0, 0) by the other
C1_Witness ==
    /\ Done("t1") /\ hi["t1"] = {0} /\ lo["t1"] = Zero /\ ret["t1"] = HighOne
    /\ Pair("t1") /\ prev["t1"] = LowMax
    /\ Done("t2") /\ hi["t2"] = Zero /\ lo["t2"] = Zero /\ ret["t2"] = Zero

\* C2: of two consecutive calls of a thread captured on the same core with
\* neither a reset nor a wraparound of its counter in between, the second
\* returns a value >= the first.
C2_Monotonic ==
    \A t \in Threads :
        (SameCorePair(t) /\ ~gap[t].reset /\ ~gap[t].wrap) =>
            Geq(ret[t], prev[t])
\* such a pair with the counter advanced in between: strictly increasing
C2_Witness ==
    \E t \in Threads :
        /\ SameCorePair(t) /\ ~gap[t].reset /\ ~gap[t].wrap
        /\ gap[t].ticks >= 1
        /\ Less(prev[t], ret[t])

\* C3 as stated: under any interleaving a call in progress can always
\* complete, no two calls in progress access a shared mutable location, and
\* the values a thread obtains on its own core are non-decreasing.
C3_AsStated ==
    /\ \A t \in Threads : pc[t] = "captured" => ENABLED Return(t)
    /\ NoRace
    /\ \A t \in Threads : SameCorePair(t) => Geq(ret[t], prev[t])
\* C3 amended: the same, the values being non-decreasing as long as the
\* core's counter was neither reset nor wrapped around between the reads.
C3_ThreadSafe ==
    /\ \A t \in Threads : pc[t] = "captured" => ENABLED Return(t)
    /\ NoRace
    /\ \A t \in Threads :
          (SameCorePair(t) /\ ~gap[t].reset /\ ~gap[t].wrap) =>
              Geq(ret[t], prev[t])
\* two calls in progress at once on one core, both having read the same
\* counter
C3_Witness ==
    \E t, u \in Threads :
        /\ t # u
        /\ pc[t] = "captured" /\ pc[u] = "captured"
        /\ core[t] = core[u]
        /\ acc[t] # {} /\ acc[u] # {}
        /\ \E a \in acc[t], b \in acc[u] : a.loc = b.loc

\* C4: a step of rdtsc() by thread t changes no core's counter, no thread's
\* placement, and nothing of any other thread: not its locals, its position
\* or its result.
C4_Frame ==
    [][\A t \in Threads :
          RdtscStep(t) =>
              /\ tsc' = tsc
              /\ core' = core
              /\ \A u \in Threads \ {t} :
                    /\ lo'[u] = lo[u] /\ hi'[u] = hi[u]
                    /\ ret'[u] = ret[u] /\ pc'[u] = pc[u]]_vars
\* a thread called twice with no platform event: its core's counter is what
\* it captured and both calls returned it, while the other thread was inside
\* a call of its own
C4_Witness ==
    \E t, u \in Threads :
        /\ t # u
        /\ Pair(t) /\ nevents = 0
        /\ tsc[capCore[t]] = snap[t] /\ ret[t] = snap[t] /\ prev[t] = snap[t]
        /\ pc[u] = "captured"

\* C5: every call that has executed its asm statement returns, whatever the
\* other threads do; the thread is only ever idle or between the asm and the
\* return; the value returned is a 64-bit word, and it is the counter value
\* itself also when that value is 0 or 0xFFFFFFFFFFFFFFFF.
C5_Total ==
    /\ [](\A t \in Threads :
            /\ pc[t] \in {"idle", "captured"}
            /\ ret[t] \subseteq Bits(CounterBits)
            /\ (Done(t) /\ snap[t] \in {Zero, AllOnes}) => ret[t] = snap[t])
    /\ \A t \in Threads : (pc[t] = "captured") ~> (pc[t] = "idle")
\* both threads were inside a call at once and a call returned 2^64 - 1
C5_Witness ==
    \E t, u \in Threads :
        /\ t # u
        /\ Done(t) /\ ret[t] = AllOnes
        /\ pc[u] = "captured"

\* C6: the value a call returns is a value the core's counter held at an
\* instant of that call, also when the counter carried from the low into
\* the high half while the call ran.
C6_AtomicCapture ==
    [][\A t \in Threads : Return(t) => ret'[t] \in during[t]]_vars
\* a call about to return during which the counter went from 0xFFFFFFFF to
\* 0x100000000, after the halves 0xFFFFFFFF and 0 were captured
C6_Witness ==
    \E t \in Threads :
        /\ pc[t] = "captured"
        /\ LowMax \in during[t] /\ HighOne \in during[t]
        /\ lo[t] = LowMax /\ hi[t] = Zero
        /\ tsc[core[t]] = HighOne

\* C7 as stated: two consecutive calls on the same core with at least one
\* tick of the counter in between (never a full cycle of 2^64 ticks within
\* MaxEvents) return different values.
C7_AsStated ==
    \A t \in Threads :
        (SameCorePair(t) /\ gap[t].ticks >= 1) => ret[t] # prev[t]
\* C7 amended: the same, provided the counter was not reset between the two
\* calls.
C7_Advances ==
    \A t \in Threads :
        (SameCorePair(t) /\ ~gap[t].reset /\ gap[t].ticks >= 1) =>
            ret[t] # prev[t]
\* such a pair where only the low half moved
C7_Witness ==
    \E t \in Threads :
        /\ SameCorePair(t) /\ ~gap[t].reset /\ gap[t].ticks >= 1
        /\ Shr(ret[t], HalfBits) = Shr(prev[t], HalfBits)
        /\ ret[t] # prev[t]

\* C8: a call that begins after a call on another core has returned still
\* returns exactly its own core's counter: nothing aligns it with the other
\* core's value.
C8_NoCrossCoreOrder ==
    \A t \in Threads :
        (Done(t) /\ \E b \in before[t] : b.core # capCore[t]) =>
            ret[t] = snap[t]
\* the later call, on the other core, returned a strictly smaller value
C8_Witness ==
    \E t \in Threads :
        /\ Done(t)
        /\ \E b \in before[t] : b.core # capCore[t] /\ Less(ret[t], b.val)

\* C9: between two consecutive calls on the same core without reset, the
\* second returns the counter as it is, unadjusted; it is smaller than the
\* first if and only if the counter wrapped from 2^64 - 1 to 0 in between.
C9_Wraparound ==
    \A t \in Threads :
        (SameCorePair(t) /\ ~gap[t].reset) =>
            /\ ret[t] = snap[t]
            /\ gap[t].wrap <=> Less(ret[t], prev[t])
\* 0xFFFFFFFFFFFFFFFF, then the wrap, then 0
C9_Witness ==
    \E t \in Threads :
        /\ SameCorePair(t) /\ ~gap[t].reset /\ gap[t].wrap
        /\ prev[t] = AllOnes /\ ret[t] = Zero

\* C10: the result keeps every bit of both halves: its upper 32 bits are
\* the high half, its lower 32 bits the low half, so two calls that return
\* the same value combined the same pair.
C10_Injective ==
    /\ \A t \in Threads :
          Done(t) =>
              /\ Shr(ret[t], HalfBits) = hi[t]
              /\ Cast(ret[t], HalfBits) = lo[t]
    /\ \A t, u \in Threads :
          (Done(t) /\ Done(u) /\ ret[t] = ret[u]) =>
              (hi[t] = hi[u] /\ lo[t] = lo[u])
\* two calls whose pairs differ in the high half only
C10_Witness ==
    \E t, u \in Threads :
        /\ Done(t) /\ Done(u)
        /\ lo[t] = lo[u] /\ hi[t] # hi[u] /\ hi[t] # Zero
        /\ ret[t] # ret[u]

====
